---- MODULE Spec2Model ----
(***************************************************************************)
(* Command-safety mediation layer of desktopcommander-interface:           *)
(*   src/src/core/security.py         Policy Tables and Safety Evaluator   *)
(*   src/src/core/command_service.py  Execution Mediator                   *)
(* A Python str is modelled as the sequence of its characters, each a      *)
(* one-character string, so that lower(), strip(), startswith() and the    *)
(* substring test `in` are computed character by character.                *)
(***************************************************************************)
EXTENDS Integers, Sequences, FiniteSets, TLC

(***************************************************************************)
(* str operations                                                          *)
(***************************************************************************)
UPPER ==
  <<"A","B","C","D","E","F","G","H","I","J","K","L","M",
    "N","O","P","Q","R","S","T","U","V","W","X","Y","Z">>

LOWER ==
  <<"a","b","c","d","e","f","g","h","i","j","k","l","m",
    "n","o","p","q","r","s","t","u","v","w","x","y","z">>

\* characters str.strip() removes
WHITESPACE == {" ", "\t", "\n"}

LowerChar(c) ==
  IF \E i \in DOMAIN UPPER : UPPER[i] = c
    THEN LOWER[CHOOSE i \in DOMAIN UPPER : UPPER[i] = c]
    ELSE c

UpperChar(c) ==
  IF \E i \in DOMAIN LOWER : LOWER[i] = c
    THEN UPPER[CHOOSE i \in DOMAIN LOWER : LOWER[i] = c]
    ELSE c

\* str.lower()
Lower(s) == SubSeq([i \in DOMAIN s |-> LowerChar(s[i])], 1, Len(s))

\* str.upper(), used only to build inputs
Upper(s) == SubSeq([i \in DOMAIN s |-> UpperChar(s[i])], 1, Len(s))

\* str.strip()
Strip(s) ==
  LET keep == {i \in DOMAIN s : s[i] \notin WHITESPACE}
  IN  IF keep = {} THEN <<>>
      ELSE LET lo == CHOOSE i \in keep : \A j \in keep : i <= j
               hi == CHOOSE i \in keep : \A j \in keep : j <= i
           IN  SubSeq(s, lo, hi)

\* str.startswith(p)
StartsWith(s, p) ==
  /\ Len(p) <= Len(s)
  /\ \A k \in DOMAIN p : s[k] = p[k]

\* p occurs in s at position i
OccursAt(s, p, i) ==
  /\ i >= 1
  /\ i + Len(p) - 1 <= Len(s)
  /\ \A k \in DOMAIN p : s[i + k - 1] = p[k]

\* the substring test  p in s
Contains(s, p) == \E i \in 1..(Len(s) - Len(p) + 1) : OccursAt(s, p, i)

\* any(p in s for p in list)
AnyIn(s, list) == \E n \in DOMAIN list : Contains(s, list[n])

(***************************************************************************)
(* Policy Tables                                                           *)
(***************************************************************************)
\* The character ` (U+0060), which a TLA+ string cannot hold.
BACKTICK == "<backtick>"

DANGEROUS_PATTERNS ==
  <<
     <<"r","m"," ","-","r","f"," ","/">>,
     <<"s","u","d","o"," ","r","m">>,
     <<"f","o","r","m","a","t">>,
     <<"m","k","f","s">>,
     <<"d","d"," ","i","f","=","/","d","e","v","/","z","e","r","o">>,
     <<">"," ","/","d","e","v","/">>,
     <<":","(",")","{"," ",":","|",":","&"," ","}",";",":">>,
     <<"c","h","m","o","d"," ","-","r"," ","7","7","7"," ","/">>,
     <<"c","h","o","w","n"," ","-","r">>,
     <<"r","m"," ","-","r","f"," ","/","*">>,
     <<"s","u","d","o"," ","s","h","u","t","d","o","w","n">>,
     <<"s","u","d","o"," ","r","e","b","o","o","t">>,
     <<"s","u","d","o"," ","h","a","l","t">>,
     <<"w","i","p","e","f","s">>,
     <<"s","h","r","e","d">>,
     <<">","/","d","e","v","/","s","d">>,
     <<"c","a","t"," ","/","d","e","v","/","u","r","a","n","d","o","m"," ",">">>,
     <<"s","u","d","o"," ","p","a","s","s","w","d">>,
     <<"s","u","d","o"," ","u","s","e","r","d","e","l">>,
     <<"s","u","d","o"," ","u","s","e","r","m","o","d">>,
     <<"s","u","d","o"," ","g","r","o","u","p","d","e","l">>,
     <<"i","p","t","a","b","l","e","s"," ","-","F">>,
     <<"s","y","s","t","e","m","c","t","l"," ","s","t","o","p">>,
     <<"s","e","r","v","i","c","e"," ","s","t","o","p">>,
     <<"k","i","l","l"," ","-","9">>,
     <<"t","r","u","n","c","a","t","e">>,
     <<">","/","e","t","c","/">>,
     <<"|"," ","s","h">>,
     <<"|"," ","b","a","s","h">>,
     <<"c","u","r","l"," ","|"," ","s","h">>,
     <<"w","g","e","t"," ","|"," ","s","h">>,
     <<"c","u","r","l"," ","|"," ","b","a","s","h">>,
     <<"w","g","e","t"," ","|"," ","b","a","s","h">>,
     <<"b","a","s","h"," ","<","(">>,
     <<"e","v","a","l"," ","$","(">>,
     <<"$","(","c","u","r","l">>,
     <<"$","(","w","g","e","t">>,
     <<"b","a","s","e","6","4"," ","-","d"," ","|">>,
     <<"|"," ","b","a","s","e","6","4"," ","-","d">> >>

SAFE_COMMANDS ==
  <<
     <<"l","s">>,
     <<"l","l">>,
     <<"l","a">>,
     <<"d","i","r">>,
     <<"p","w","d">>,
     <<"f","i","n","d">>,
     <<"l","o","c","a","t","e">>,
     <<"w","h","i","c","h">>,
     <<"w","h","e","r","e","i","s">>,
     <<"f","i","l","e">>,
     <<"s","t","a","t">>,
     <<"d","u">>,
     <<"d","f">>,
     <<"m","o","u","n","t">>,
     <<"l","s","b","l","k">>,
     <<"t","r","e","e">>,
     <<"c","a","t">>,
     <<"h","e","a","d">>,
     <<"t","a","i","l">>,
     <<"l","e","s","s">>,
     <<"m","o","r","e">>,
     <<"g","r","e","p">>,
     <<"e","g","r","e","p">>,
     <<"f","g","r","e","p">>,
     <<"a","w","k">>,
     <<"s","e","d"," ","-","n">>,
     <<"c","u","t">>,
     <<"s","o","r","t">>,
     <<"u","n","i","q">>,
     <<"w","c">>,
     <<"d","i","f","f">>,
     <<"c","o","m","m">>,
     <<"p","s">>,
     <<"t","o","p">>,
     <<"h","t","o","p">>,
     <<"f","r","e","e">>,
     <<"v","m","s","t","a","t">>,
     <<"i","o","s","t","a","t">>,
     <<"n","e","t","s","t","a","t">>,
     <<"s","s">>,
     <<"l","s","o","f">>,
     <<"w","h","o">>,
     <<"w">>,
     <<"i","d">>,
     <<"g","r","o","u","p","s">>,
     <<"u","n","a","m","e">>,
     <<"h","o","s","t","n","a","m","e">>,
     <<"u","p","t","i","m","e">>,
     <<"d","a","t","e">>,
     <<"c","a","l">>,
     <<"e","n","v">>,
     <<"p","r","i","n","t","e","n","v">>,
     <<"l","o","c","a","l","e">>,
     <<"l","s","c","p","u">>,
     <<"l","s","p","c","i">>,
     <<"l","s","u","s","b">>,
     <<"p","i","n","g">>,
     <<"t","r","a","c","e","r","o","u","t","e">>,
     <<"n","s","l","o","o","k","u","p">>,
     <<"d","i","g">>,
     <<"h","o","s","t">>,
     <<"i","f","c","o","n","f","i","g">>,
     <<"i","p"," ","a","d","d","r">>,
     <<"i","p"," ","r","o","u","t","e">>,
     <<"a","r","p">>,
     <<"r","o","u","t","e">>,
     <<"d","p","k","g"," ","-","l">>,
     <<"r","p","m"," ","-","q","a">>,
     <<"y","u","m"," ","l","i","s","t">>,
     <<"a","p","t"," ","l","i","s","t">>,
     <<"b","r","e","w"," ","l","i","s","t">>,
     <<"p","i","p"," ","l","i","s","t">>,
     <<"p","i","p"," ","f","r","e","e","z","e">>,
     <<"n","p","m"," ","l","i","s","t">>,
     <<"g","e","m"," ","l","i","s","t">>,
     <<"m","a","n">>,
     <<"i","n","f","o">>,
     <<"h","e","l","p">>,
     <<"-","-","h","e","l","p">>,
     <<"-","h">>,
     <<"-","-","v","e","r","s","i","o","n">>,
     <<"-","v">>,
     <<"g","i","t"," ","s","t","a","t","u","s">>,
     <<"g","i","t"," ","l","o","g">>,
     <<"g","i","t"," ","d","i","f","f">>,
     <<"g","i","t"," ","b","r","a","n","c","h">>,
     <<"g","i","t"," ","r","e","m","o","t","e">>,
     <<"g","i","t"," ","s","h","o","w">>,
     <<"g","i","t"," ","c","o","n","f","i","g"," ","-","-","l","i","s","t">>,
     <<"e","c","h","o">>,
     <<"p","r","i","n","t","f">>,
     <<"t","e","s","t">>,
     <<"t","r","u","e">>,
     <<"f","a","l","s","e">>,
     <<"w","h","o","a","m","i">>,
     <<"b","a","s","e","n","a","m","e">>,
     <<"d","i","r","n","a","m","e">>,
     <<"r","e","a","d","l","i","n","k">>,
     <<"t","y","p","e">>,
     <<"c","o","m","m","a","n","d">> >>

high_risk_terms ==
  <<
     <<"r","m">>,
     <<"d","e","l","e","t","e">>,
     <<"s","u","d","o">>,
     <<"c","h","m","o","d">>,
     <<"c","h","o","w","n">>,
     <<"f","o","r","m","a","t">>,
     <<"m","k","f","s">> >>

danger ==
  <<
     <<"|">>,
     <<">">>,
     <<"<">>,
     <<"&","&">>,
     <<";">>,
     <<BACKTICK>>,
     <<"$","(">> >>

safe_pipes ==
  <<
     <<"|"," ","g","r","e","p">>,
     <<"|"," ","e","g","r","e","p">>,
     <<"|"," ","f","g","r","e","p">>,
     <<"|"," ","l","e","s","s">>,
     <<"|"," ","m","o","r","e">>,
     <<"|"," ","h","e","a","d">>,
     <<"|"," ","t","a","i","l">>,
     <<"|"," ","s","o","r","t">>,
     <<"|"," ","u","n","i","q">>,
     <<"|"," ","w","c">> >>


(***************************************************************************)
(* Safety Evaluator                                                        *)
(***************************************************************************)
\* is_command_safe with the operands of `in` exchanged
is_command_safe_swapped(command) ==
  LET command_lower == Lower(command)
  IN  ~ \E n \in DOMAIN DANGEROUS_PATTERNS : Contains(DANGEROUS_PATTERNS[n], command_lower)

is_command_safe(command) ==
  LET command_lower == Lower(command)
  IN  ~ AnyIn(command_lower, DANGEROUS_PATTERNS)

\* estimate_command_risk looking for the terms in the command as given
estimate_command_risk_case_sensitive(command) ==
  IF AnyIn(command, high_risk_terms) THEN "HIGH" ELSE "LOW"

estimate_command_risk(command) ==
  LET command_lower == Lower(command)
  IN  IF AnyIn(command_lower, high_risk_terms) THEN "HIGH" ELSE "LOW"

\* the loop condition of is_command_in_safe_mode_whitelist for entry n
PrefixMatch(command_lower, n) ==
  \/ StartsWith(command_lower, SAFE_COMMANDS[n] \o <<" ">>)
  \/ command_lower = SAFE_COMMANDS[n]

\* is_command_in_safe_mode_whitelist testing startswith(safe_cmd), without
\* the following space
is_command_in_safe_mode_whitelist_loose(command) ==
  LET command_lower == Strip(Lower(command))
  IN  IF \E n \in DOMAIN SAFE_COMMANDS : SAFE_COMMANDS[n] = command_lower
        THEN TRUE
      ELSE IF \E n \in DOMAIN SAFE_COMMANDS : StartsWith(command_lower, SAFE_COMMANDS[n])
        THEN IF AnyIn(command_lower, danger)
               THEN IF ~ AnyIn(command_lower, safe_pipes) THEN FALSE ELSE TRUE
               ELSE TRUE
      ELSE FALSE

\* is_command_in_safe_mode_whitelist without the safe-pipe exception
is_command_in_safe_mode_whitelist_no_pipes(command) ==
  LET command_lower == Strip(Lower(command))
  IN  IF \E n \in DOMAIN SAFE_COMMANDS : SAFE_COMMANDS[n] = command_lower
        THEN TRUE
      ELSE IF \E n \in DOMAIN SAFE_COMMANDS : PrefixMatch(command_lower, n)
        THEN IF AnyIn(command_lower, danger) THEN FALSE ELSE TRUE
      ELSE FALSE

\* is_command_in_safe_mode_whitelist with the receiver and the argument of
\* startswith exchanged
is_command_in_safe_mode_whitelist_swapped(command) ==
  LET command_lower == Strip(Lower(command))
  IN  IF \E n \in DOMAIN SAFE_COMMANDS : SAFE_COMMANDS[n] = command_lower
        THEN TRUE
      ELSE IF \E n \in DOMAIN SAFE_COMMANDS :
                \/ StartsWith(SAFE_COMMANDS[n] \o <<" ">>, command_lower)
                \/ command_lower = SAFE_COMMANDS[n]
        THEN IF AnyIn(command_lower, danger)
               THEN IF ~ AnyIn(command_lower, safe_pipes) THEN FALSE ELSE TRUE
               ELSE TRUE
      ELSE FALSE

\* The loop returns at the first entry that matches; what it returns there
\* does not depend on the entry.
is_command_in_safe_mode_whitelist(command) ==
  LET command_lower == Strip(Lower(command))
  IN  IF \E n \in DOMAIN SAFE_COMMANDS : SAFE_COMMANDS[n] = command_lower
        THEN TRUE
      ELSE IF \E n \in DOMAIN SAFE_COMMANDS : PrefixMatch(command_lower, n)
        THEN IF AnyIn(command_lower, danger)
               THEN IF ~ AnyIn(command_lower, safe_pipes) THEN FALSE ELSE TRUE
               ELSE TRUE
      ELSE FALSE

(***************************************************************************)
(* Inputs: command strings built as prefix + core + suffix.  The cores     *)
(* hold every denylist entry (as listed, upper-cased and lower-cased),     *)
(* every allowlist entry (as listed and upper-cased), one command per      *)
(* shell metacharacter and per safe pipe, and the commands the tests and   *)
(* the specification name.                                                 *)
(***************************************************************************)
Entries(list) == {list[n] : n \in DOMAIN list}

MetaCores == {<<"l","s"," ">> \o danger[n] \o <<" ","x">> : n \in DOMAIN danger}

PipeCores == {<<"l","s"," ">> \o safe_pipes[n] \o <<" ","x">> : n \in DOMAIN safe_pipes}

NamedCores ==
  { <<>>,
    <<"p","w","d","x">>,                                \* pwdx
    <<"a","p","t"," ","u","p","g","r","a","d","e">>,    \* apt upgrade
    <<"r","m"," ","f","i","l","e",".","t","x","t">>,    \* rm file.txt
    <<"e","c","h","o"," ","h","i">>,                    \* echo hi
    <<"t","o","u","c","h"," ","x">>,                    \* touch x
    <<"i","p","t","a","b","l","e","s">> }               \* iptables

Cores ==
  Entries(DANGEROUS_PATTERNS)
    \cup {Upper(p) : p \in Entries(DANGEROUS_PATTERNS)}
    \cup {Lower(p) : p \in Entries(DANGEROUS_PATTERNS)}
    \cup Entries(SAFE_COMMANDS)
    \cup {Upper(p) : p \in Entries(SAFE_COMMANDS)}
    \cup MetaCores \cup PipeCores \cup NamedCores

Prefixes ==
  { <<>>,
    <<" ">>,
    <<"e","c","h","o"," ">> }                           \* "echo "

Suffixes ==
  { <<>>,
    <<" ">>,
    <<"\t">>,
    <<"x">>,
    <<" ","-","l","a">>,                                                \* " -la"
    <<" ","-","l","a"," ","|"," ","g","r","e","p"," ","f","o","o">>,    \* " -la | grep foo"
    <<" ","-","l","a"," ",">"," ","/","t","m","p","/","o","u","t">>,    \* " -la > /tmp/out"
    <<" ","|"," ","g","r","e","p"," ","f","o","o",";"," ",
      "t","o","u","c","h"," ","x">>,                                    \* " | grep foo; touch x"
    <<" ","|"," ","G","R","E","P"," ","f","o","o">> }                   \* " | GREP foo"

Commands == {p \o c \o s : p \in Prefixes, c \in Cores, s \in Suffixes}


(***************************************************************************)
(* Execution Mediator                                                      *)
(*                                                                         *)
(* A text built by an f-string is the sequence of its parts: the literal   *)
(* pieces of the template (Lit) and the formatted values (Val, a string    *)
(* of characters).                                                         *)
(***************************************************************************)
Lit(s) == [lit |-> s, val |-> <<>>]

Val(cs) == [lit |-> "", val |-> cs]

\* CommandStatus
SUCCESS == "SUCCESS"

ERROR == "ERROR"

WARNING == "WARNING"

DIGITS == <<"0","1","2","3","4","5","6","7","8","9">>

\* str(n) for n >= 0, as the f-string formats an int
RECURSIVE IntToStr(_)
IntToStr(n) ==
  IF n < 10 THEN <<DIGITS[n + 1]>>
  ELSE IntToStr(n \div 10) \o <<DIGITS[(n % 10) + 1]>>

\* Path.cwd(): the working directory, or FileNotFoundError when it is gone
PathCwd ==
  { [raises |-> FALSE, text |-> <<"/","w">>],
    [raises |-> TRUE,  text |-> <<"[","E","r","r","n","o"," ","2","]">>] }

\* os.getlogin() if hasattr(os, 'getlogin') else 'current user':
\* the login name, OSError without a controlling terminal, or the fallback
OsGetlogin ==
  { [raises |-> FALSE, part |-> Val(<<"u","s","e","r">>)],
    [raises |-> FALSE, part |-> Lit("current user")],
    [raises |-> TRUE,  part |-> Lit("")] }

\* os.environ.get('SHELL', 'default')
EnvironShell == { Val(<<"/","b","i","n","/","s","h">>), Lit("default") }

\* what subprocess.run(command, shell=True, capture_output=True, text=True,
\* timeout=timeout, cwd=...) can do: complete, exceed the timeout, or fail.
\* On a timeout it kills the process it spawned, which is the shell; alive
\* tells whether a process the shell started for the command is then still
\* running, as it is whenever the shell forked instead of exec'ing.
SubprocessRun ==
  [kind : {"completed"}, returncode : {0, 1},
   stdout : {<<>>, <<"o","u","t">>}, stderr : {<<>>, <<"e","r","r">>}, alive : {FALSE}]
    \cup [kind : {"TimeoutExpired"}, returncode : {0}, stdout : {<<>>}, stderr : {<<>>},
          alive : BOOLEAN]
    \cup { [kind |-> "Exception", returncode |-> 0, stdout |-> <<>>,
            stderr |-> <<"[","E","r","r","n","o"," ","2","]">>, alive |-> FALSE] }

\* the call returned (output, status) after the Process Runner invocations runs
Return(output, status, runs) ==
  [raised |-> FALSE, output |-> output, status |-> status, runs |-> runs]

\* the call raised: an exception left execute_command
Raise(runs) ==
  [raised |-> TRUE, output |-> <<>>, status |-> "none", runs |-> runs]

safe_mode_message(command) ==
  << Lit("Command blocked by SAFE MODE\n\nThe command '"),
     Val(command),
     Lit("' is not in the safe mode whitelist.\n\nSafe mode only allows read-only commands that cannot modify the system.\nTo execute this command, disable safe mode.\n\nAllowed command types in safe mode:\n- File listing and reading (ls, cat, grep, etc.)\n- System information (ps, df, uname, etc.)\n- Network diagnostics (ping, dig, etc.)\n- Package listings (pip list, npm list, etc.)\n- Git read operations (git status, git log, etc.)") >>

dry_run_output(command, cwd, login, shell) ==
  << Lit("[DRY RUN MODE"),
     Lit(" - Command NOT executed]\n\nCommand that would be executed:\n$ "),
     Val(command),
     Lit("\n\nWorking directory: "),
     Val(cwd),
     Lit("\nUser permissions: "),
     login,
     Lit("\nShell: "),
     shell,
     Lit("\n\n"),
     Lit("Safety check: "),
     Lit(IF is_command_safe(command) THEN "PASSED" ELSE "FAILED"),
     Lit("\n"),
     Lit("Estimated risk: "),
     Lit(estimate_command_risk(command)),
     Lit("\n\nTo actually execute this command, disable dry-run mode.") >>

\* run_outcome whose first test looks at stderr only, not at the return code
run_outcome_stderr_is_error(command, timeout, r) ==
  LET runs == << [command |-> command, timeout |-> timeout, proc |-> r] >>
      output == r.stdout
      stderr == r.stderr
  IN  IF r.kind = "TimeoutExpired"
        THEN Return(<< Lit("Command timed out after "), Val(IntToStr(timeout)),
                       Lit(" seconds") >>, ERROR, runs)
      ELSE IF r.kind = "Exception"
        THEN Return(<< Lit("Execution failed: "), Val(r.stderr) >>, ERROR, runs)
      ELSE IF stderr # <<>>
        THEN Return(<< Lit("Error:\n"), Val(stderr), Lit("\n\nOutput:\n"), Val(output) >>,
                    ERROR, runs)
      ELSE IF output # <<>>
        THEN Return(<< Val(output) >>, SUCCESS, runs)
      ELSE Return(<< Lit("Command executed successfully (no output)") >>, SUCCESS, runs)

\* the mapping of a subprocess.run outcome r, the command having been run;
\* the run is recorded with the arguments it got and with what it did
run_outcome(command, timeout, r) ==
  LET runs == << [command |-> command, timeout |-> timeout, proc |-> r] >>
      output == r.stdout
      stderr == r.stderr
  IN  IF r.kind = "TimeoutExpired"
        THEN Return(<< Lit("Command timed out after "), Val(IntToStr(timeout)),
                       Lit(" seconds") >>, ERROR, runs)
      ELSE IF r.kind = "Exception"
        THEN Return(<< Lit("Execution failed: "), Val(r.stderr) >>, ERROR, runs)
      ELSE IF stderr # <<>> /\ r.returncode # 0
        THEN Return(<< Lit("Error:\n"), Val(stderr), Lit("\n\nOutput:\n"), Val(output) >>,
                    ERROR, runs)
      ELSE IF stderr # <<>>
        THEN Return(<< Lit("Warnings:\n"), Val(stderr), Lit("\n\nOutput:\n"), Val(output) >>,
                    WARNING, runs)
      ELSE IF output # <<>>
        THEN Return(<< Val(output) >>, SUCCESS, runs)
      ELSE Return(<< Lit("Command executed successfully (no output)") >>, SUCCESS, runs)

\* the denylist branch of execute_command
blocked_outcome == Return(<< Lit("Command blocked for safety") >>, WARNING, <<>>)

\* the safe-mode branch of execute_command
safe_mode_outcome(command) == Return(safe_mode_message(command), WARNING, <<>>)

\* the dry-run branch of execute_command: it is outside the try block, so an
\* exception of Path.cwd() or os.getlogin() leaves execute_command
dry_run_outcomes(command) ==
  { IF cwd.raises \/ login.raises
      THEN Raise(<<>>)
      ELSE Return(dry_run_output(command, cwd.text, login.part, shell), SUCCESS, <<>>)
    : cwd \in PathCwd, login \in OsGetlogin, shell \in EnvironShell }

\* the try block handing the trimmed, lowercased copy to subprocess.run
run_outcomes_normalized(command, timeout) ==
  { IF cwd.raises
      THEN Return(<< Lit("Execution failed: "), Val(cwd.text) >>, ERROR, <<>>)
      ELSE run_outcome(Strip(Lower(command)), timeout, r)
    : cwd \in PathCwd, r \in SubprocessRun }

\* the try block of execute_command: an exception of Path.cwd(), evaluated
\* as an argument of subprocess.run, is caught before the process is spawned
run_outcomes(command, timeout) ==
  { IF cwd.raises
      THEN Return(<< Lit("Execution failed: "), Val(cwd.text) >>, ERROR, <<>>)
      ELSE run_outcome(command, timeout, r)
    : cwd \in PathCwd, r \in SubprocessRun }

\* execute_command with the dry-run branch tested first
execute_command_dry_run_first(command, timeout, dry_run, safe_mode) ==
  IF dry_run
    THEN dry_run_outcomes(command)
  ELSE IF ~ is_command_safe(command)
    THEN { blocked_outcome }
  ELSE IF safe_mode /\ ~ is_command_in_safe_mode_whitelist(command)
    THEN { safe_mode_outcome(command) }
  ELSE run_outcomes(command, timeout)

\* execute_command whose dry-run branch builds the preview but does not return
execute_command_dry_run_falls_through(command, timeout, dry_run, safe_mode) ==
  IF ~ is_command_safe(command)
    THEN { blocked_outcome }
  ELSE IF safe_mode /\ ~ is_command_in_safe_mode_whitelist(command)
    THEN { safe_mode_outcome(command) }
  ELSE run_outcomes(command, timeout)

\* execute_command with the safe-mode branch tested after the dry-run branch
execute_command_safe_mode_last(command, timeout, dry_run, safe_mode) ==
  IF ~ is_command_safe(command)
    THEN { blocked_outcome }
  ELSE IF dry_run
    THEN dry_run_outcomes(command)
  ELSE IF safe_mode /\ ~ is_command_in_safe_mode_whitelist(command)
    THEN { safe_mode_outcome(command) }
  ELSE run_outcomes(command, timeout)

\* execute_command in which safe mode also forces the preview
execute_command_safe_mode_previews(command, timeout, dry_run, safe_mode) ==
  IF ~ is_command_safe(command)
    THEN { blocked_outcome }
  ELSE IF safe_mode /\ ~ is_command_in_safe_mode_whitelist(command)
    THEN { safe_mode_outcome(command) }
  ELSE IF dry_run \/ safe_mode
    THEN dry_run_outcomes(command)
  ELSE run_outcomes(command, timeout)

\* execute_command that also blocks what estimate_command_risk rates HIGH
execute_command_high_risk_blocked(command, timeout, dry_run, safe_mode) ==
  IF ~ is_command_safe(command) \/ estimate_command_risk(command) = "HIGH"
    THEN { blocked_outcome }
  ELSE IF safe_mode /\ ~ is_command_in_safe_mode_whitelist(command)
    THEN { safe_mode_outcome(command) }
  ELSE IF dry_run
    THEN dry_run_outcomes(command)
  ELSE run_outcomes(command, timeout)

\* execute_command(command, timeout, dry_run, safe_mode): the set of ways the
\* call can end, one for each behaviour of the collaborators it calls
execute_command(command, timeout, dry_run, safe_mode) ==
  IF ~ is_command_safe(command)
    THEN { blocked_outcome }
  ELSE IF safe_mode /\ ~ is_command_in_safe_mode_whitelist(command)
    THEN { safe_mode_outcome(command) }
  ELSE IF dry_run
    THEN dry_run_outcomes(command)
  ELSE run_outcomes(command, timeout)

(***************************************************************************)
(* Bounds and inputs of a mediation call                                   *)
(***************************************************************************)
\* timeouts 1..MaxTimeout are tried besides the default
MaxTimeout == 1

\* Config.command_timeout
DefaultTimeout == 30

Timeouts == (1..MaxTimeout) \cup {DefaultTimeout}

CallSuffixes ==
  { <<>>,
    <<" ">>,
    <<" ","-","l","a"," ","|"," ","g","r","e","p"," ","f","o","o">>,    \* " -la | grep foo"
    <<" ","-","l","a"," ",">"," ","/","t","m","p","/","o","u","t">> }   \* " -la > /tmp/out"

\* the commands execute_command is called with: every core, bare and with
\* every call suffix, which includes the empty and the whitespace-only strings
CallCommands == {c \o s : c \in Cores, s \in CallSuffixes}

(***************************************************************************)
(* State                                                                   *)
(***************************************************************************)
VARIABLES
  command,     \* the command string under evaluation or mediation
  timeout,     \* arguments of the execute_command call
  dry_run,
  safe_mode,
  pc,          \* "idle", "called", "returned" or "raised"
  result,      \* how the execute_command call ended
  ev,          \* the evaluator function applied to command and what it returned
  app_state,   \* AppState: command_history, config.command_timeout, dry_run_mode, safe_mode
  ui,          \* what the last presenter handler returned to the interface
  entered,     \* the commands that entered mediation, in order, and how each ended
  returned,    \* the entry the last add_to_history call returned
  calls,       \* the arguments of the recorder calls made so far, in order
  lists,       \* the list objects app.py's AppState.command_history has been bound to
  cur,         \* the list object app.py's AppState.command_history is bound to now
  max_history_entries,   \* app.py's Config.max_history_entries
  thr,         \* each thread's position in add_command and its local values
  appended,    \* the entries in the order their list.append took effect
  resp,        \* how the request of the last generate_command call ended
  generation,  \* what the last generate_command call returned
  config_file  \* the file at CONFIG_FILE

callVars == <<command, timeout, dry_run, safe_mode, pc, result, ev>>

\* what the presenter's collaborators hold: the generator and the
\* configuration file
serviceVars == <<resp, generation, config_file>>

presenterVars == <<app_state, ui, entered, serviceVars>>

historyVars == <<returned, calls, lists, cur, max_history_entries>>

threadVars == <<thr, appended>>

vars == <<callVars, presenterVars, historyVars, threadVars>>

NoEval == [fn |-> "none", ret |-> FALSE]

NoResult == [raised |-> FALSE, output |-> <<>>, status |-> "none", runs |-> <<>>]

\* AppState(): an empty history, the default configuration, both modes off
NewAppState ==
  [command_history |-> <<>>,
   config |-> [command_timeout |-> DefaultTimeout],
   dry_run_mode |-> FALSE,
   safe_mode |-> FALSE]

\* gr.update(value=..., visible=...); set is FALSE when no value is given and
\* visible is "unset" when no visibility is given
GrUpdate(set, value, visible) == [set |-> set, value |-> value, visible |-> visible]

\* a component the handler returns no update for
NoUpdate == GrUpdate(FALSE, <<>>, "unset")

\* the arguments of a handler call, those the handler does not take at rest
NoArgs ==
  [prompt |-> <<>>, execute_immediately |-> FALSE, command |-> <<>>,
   is_enabled |-> FALSE, timeout_value |-> 0]

\* the last handler call: its name and arguments, whether it ended by an
\* exception, whether it called generate_command and with what status, and
\* the updates it returned
NoUi ==
  [handler |-> "none", args |-> NoArgs, raised |-> FALSE,
   generator_called |-> FALSE, generator_status |-> "none",
   command_display |-> NoUpdate, output_display |-> NoUpdate,
   status_message |-> NoUpdate, system_status |-> NoUpdate,
   timeout_slider |-> NoUpdate, timeout_status |-> NoUpdate,
   config_status |-> NoUpdate]

NoEntry == [timestamp |-> <<>>, prompt |-> <<>>, command |-> <<>>, output |-> <<>>,
            status |-> "none"]

\* app.py's Config.max_history_entries default
DefaultMaxHistoryEntries == 50

NoReply == [kind |-> "none", text |-> <<>>]

NoGenerated == [command |-> <<>>, status |-> "none"]

\* CONFIG_FILE does not exist
NoConfigFile == [kind |-> "absent", command_timeout |-> <<>>]

\* generate_command has not been called and no configuration has been saved
ServicesAtRest ==
  /\ resp = NoReply
  /\ generation = NoGenerated
  /\ config_file = NoConfigFile

\* no presenter handler has run
PresenterAtRest ==
  /\ app_state = NewAppState
  /\ ui = NoUi
  /\ entered = <<>>
  /\ ServicesAtRest

\* no recorder call has been made; app.py's history is bound to a new empty list
HistoryAtRest ==
  /\ returned = NoEntry
  /\ calls = <<>>
  /\ lists = << <<>> >>
  /\ cur = 1
  /\ max_history_entries = DefaultMaxHistoryEntries

\* no thread is inside add_command
ThreadsAtRest ==
  /\ thr = <<>>
  /\ appended = <<>>

(***************************************************************************)
(* The Safety Evaluator as a state machine: one action per function,       *)
(* applied to the command drawn by InitEval.                               *)
(***************************************************************************)
InitEval ==
  /\ command \in Commands
  /\ timeout = DefaultTimeout
  /\ dry_run = FALSE
  /\ safe_mode = FALSE
  /\ pc = "idle"
  /\ result = NoResult
  /\ ev = NoEval
  /\ PresenterAtRest
  /\ HistoryAtRest
  /\ ThreadsAtRest

IsCommandSafe ==
  /\ pc = "idle"
  /\ ev' = [fn |-> "is_command_safe", ret |-> is_command_safe(command)]
  /\ UNCHANGED <<command, timeout, dry_run, safe_mode, pc, result>>
  /\ UNCHANGED <<presenterVars, historyVars, threadVars>>

EstimateCommandRisk ==
  /\ pc = "idle"
  /\ ev' = [fn |-> "estimate_command_risk", ret |-> estimate_command_risk(command)]
  /\ UNCHANGED <<command, timeout, dry_run, safe_mode, pc, result>>
  /\ UNCHANGED <<presenterVars, historyVars, threadVars>>

IsCommandInSafeModeWhitelist ==
  /\ pc = "idle"
  /\ ev' = [fn |-> "is_command_in_safe_mode_whitelist",
            ret |-> is_command_in_safe_mode_whitelist(command)]
  /\ UNCHANGED <<command, timeout, dry_run, safe_mode, pc, result>>
  /\ UNCHANGED <<presenterVars, historyVars, threadVars>>

NextEval == IsCommandSafe \/ EstimateCommandRisk \/ IsCommandInSafeModeWhitelist

SpecEval == InitEval /\ [][NextEval]_vars

(***************************************************************************)
(* The Execution Mediator as a state machine: a call of execute_command    *)
(* with the arguments drawn by Init, which returns or raises.              *)
(***************************************************************************)
Init ==
  /\ command \in CallCommands
  /\ timeout \in Timeouts
  /\ dry_run \in BOOLEAN
  /\ safe_mode \in BOOLEAN
  /\ pc = "called"
  /\ result = NoResult
  /\ ev = NoEval
  /\ PresenterAtRest
  /\ HistoryAtRest
  /\ ThreadsAtRest

ExecuteCommand ==
  /\ pc = "called"
  /\ \E r \in execute_command(command, timeout, dry_run, safe_mode) :
       /\ result' = r
       /\ pc' = IF r.raised THEN "raised" ELSE "returned"
  /\ UNCHANGED <<command, timeout, dry_run, safe_mode, ev>>
  /\ UNCHANGED <<presenterVars, historyVars, threadVars>>

Next == ExecuteCommand

Spec == Init /\ [][Next]_vars

(***************************************************************************)
(* Properties of the Execution Mediator (checked under Spec)               *)
(***************************************************************************)
\* the call has ended, by returning or by raising
Ended == pc \in {"returned", "raised"}

\* some part of text is the literal s
HasLit(text, s) == \E i \in DOMAIN text : text[i] = Lit(s)

\* some part of text is the formatted value cs
HasVal(text, cs) == \E i \in DOMAIN text : text[i] = Val(cs)

\* the literal s is directly followed by the literal t in text
LitThenLit(text, s, t) ==
  \E i \in DOMAIN text : i + 1 \in DOMAIN text /\ text[i] = Lit(s) /\ text[i + 1] = Lit(t)

\* text is a dry-run preview
IsPreview(text) == HasLit(text, "[DRY RUN MODE")

\* C1: a denylisted command, whatever dry_run, safe_mode and timeout are,
\* makes execute_command return exactly ("Command blocked for safety",
\* WARNING): no preview, no safe-mode rejection, no subprocess.run.
C1_DenylistDominates ==
  (Ended /\ ~ is_command_safe(command)) =>
    /\ pc = "returned"
    /\ result.output = << Lit("Command blocked for safety") >>
    /\ result.status = WARNING
    /\ result.runs = <<>>

\* "RM -RF /" mediated with dry_run and safe_mode both on
C1_Witness ==
  /\ pc = "returned"
  /\ command = <<"R","M"," ","-","R","F"," ","/">>
  /\ dry_run /\ safe_mode
  /\ result.status = WARNING

\* C4: a call with dry_run = True never invokes subprocess.run, whatever the
\* command, the timeout and safe_mode are and however the call ends.
C4_DryRunNeverExecutes == (Ended /\ dry_run) => result.runs = <<>>

\* "rm file.txt" previewed: the preview is returned and nothing was run
C4_Witness ==
  /\ pc = "returned"
  /\ dry_run
  /\ command = <<"r","m"," ","f","i","l","e",".","t","x","t">>
  /\ IsPreview(result.output)
  /\ result.runs = <<>>

\* C5: with safe_mode on, a command that passes the denylist and is not in
\* the safe-mode whitelist gets a WARNING that names the command, for both
\* values of dry_run, with no subprocess.run and no preview; so under
\* safe_mode subprocess.run only ever receives whitelisted commands.
C5_SafeModeGate ==
  /\ (Ended /\ safe_mode /\ is_command_safe(command)
         /\ ~ is_command_in_safe_mode_whitelist(command)) =>
       /\ pc = "returned"
       /\ result.status = WARNING
       /\ HasVal(result.output, command)
       /\ ~ IsPreview(result.output)
       /\ result.runs = <<>>
  /\ (Ended /\ safe_mode) =>
       \A i \in DOMAIN result.runs :
         is_command_in_safe_mode_whitelist(result.runs[i].command)

\* "apt upgrade" mediated with safe_mode on and dry_run off
C5_Witness ==
  /\ pc = "returned"
  /\ safe_mode /\ ~ dry_run
  /\ command = <<"a","p","t"," ","u","p","g","r","a","d","e">>
  /\ result.status = WARNING
  /\ HasVal(result.output, command)

\* C9: the empty string and every whitespace-only command are outside the
\* safe-mode whitelist, so a call with safe_mode on neither runs nor previews
\* such a command: it returns the safe-mode rejection.
C9_EmptyFailsClosed ==
  (Strip(command) = <<>>) =>
    /\ ~ is_command_in_safe_mode_whitelist(command)
    /\ (Ended /\ safe_mode) =>
         /\ pc = "returned"
         /\ result.status = WARNING
         /\ result.runs = <<>>
         /\ ~ IsPreview(result.output)

\* the whitespace-only command " " mediated with safe_mode and dry_run on
C9_Witness ==
  /\ pc = "returned"
  /\ safe_mode /\ dry_run
  /\ command = <<" ">>
  /\ result.status = WARNING

\* C10: a command that passes the denylist, with safe_mode off or the command
\* whitelisted, mediated with dry_run on, returns SUCCESS and a text holding
\* "[DRY RUN MODE", the command as given, "Safety check: PASSED" (never
\* FAILED) and "Estimated risk: " followed by estimate_command_risk(command).
C10_DryRunPreview ==
  (Ended /\ dry_run /\ is_command_safe(command)
     /\ (~ safe_mode \/ is_command_in_safe_mode_whitelist(command))) =>
    /\ pc = "returned"
    /\ result.status = SUCCESS
    /\ HasLit(result.output, "[DRY RUN MODE")
    /\ HasVal(result.output, command)
    /\ LitThenLit(result.output, "Safety check: ", "PASSED")
    /\ ~ HasLit(result.output, "FAILED")
    /\ LitThenLit(result.output, "Estimated risk: ", estimate_command_risk(command))

(***************************************************************************)
(* Properties of the Safety Evaluator (checked under SpecEval)             *)
(***************************************************************************)
\* the command holds the denylist entry p under case-insensitive comparison
ContainsIgnoringCase(cmd, p) == Contains(Lower(cmd), Lower(p))

\* the command holds some denylist entry under case-insensitive comparison
HoldsDenylistEntry(cmd) ==
  \E n \in DOMAIN DANGEROUS_PATTERNS : ContainsIgnoringCase(cmd, DANGEROUS_PATTERNS[n])

\* some occurrence of a shell metacharacter in cmd is not the "|" that
\* begins a recognized safe-pipe pattern
HasUnrecognizedMeta(cmd) ==
  LET cl == Lower(cmd)
  IN  \E n \in DOMAIN danger : \E i \in DOMAIN cl :
        /\ OccursAt(cl, danger[n], i)
        /\ ~ \E m \in DOMAIN safe_pipes : OccursAt(cl, safe_pipes[m], i)

\* cmd holds some shell metacharacter
HasMeta(cmd) == AnyIn(Lower(cmd), danger)

\* cmd begins with an allowlist entry followed by a space
BeginsWithEntry(cmd) ==
  \E n \in DOMAIN SAFE_COMMANDS : StartsWith(Lower(cmd), SAFE_COMMANDS[n] \o <<" ">>)

\* C2: is_command_safe returns false for every command that holds a denylist
\* entry as a substring under case-insensitive comparison, for every entry.
C2_DenylistEntryBlocks ==
  (ev.fn = "is_command_safe" /\ HoldsDenylistEntry(command)) => ev.ret = FALSE

\* C3: is_command_safe returns true for every command, the empty string
\* included, that holds no denylist entry under case-insensitive comparison.
C3_NoEntryIsSafe ==
  (ev.fn = "is_command_safe" /\ ~ HoldsDenylistEntry(command)) => ev.ret = TRUE

\* is_command_safe applied to the empty string
C3_Witness ==
  /\ ev.fn = "is_command_safe"
  /\ command = <<>>
  /\ ev.ret = TRUE

\* C6: is_command_in_safe_mode_whitelist returns false for every command in
\* which some metacharacter occurrence is not part of a safe-pipe pattern,
\* also when the command holds a recognized safe pipe elsewhere.
C6_UnrecognizedMetaRejected ==
  (ev.fn = "is_command_in_safe_mode_whitelist" /\ HasUnrecognizedMeta(command)) =>
    ev.ret = FALSE

\* C7: is_command_in_safe_mode_whitelist returns true only if the trimmed,
\* lowercased command equals an allowlist entry or begins with an entry
\* followed by a space, and it does return true when it equals an entry.
C7_ExactOrPrefixSpace ==
  ev.fn = "is_command_in_safe_mode_whitelist" =>
    LET cl == Strip(Lower(command))
    IN  /\ ev.ret = TRUE =>
             \E n \in DOMAIN SAFE_COMMANDS :
               \/ cl = SAFE_COMMANDS[n]
               \/ StartsWith(cl, SAFE_COMMANDS[n] \o <<" ">>)
        /\ (\E n \in DOMAIN SAFE_COMMANDS : cl = SAFE_COMMANDS[n]) => ev.ret = TRUE

\* "pwdx", which has the entry "pwd" as a loose prefix, is rejected
C7_Witness ==
  /\ ev.fn = "is_command_in_safe_mode_whitelist"
  /\ command = <<"p","w","d","x">>
  /\ ev.ret = FALSE

\* C8: for a command that begins with an allowlist entry and a space, the
\* whitelist accepts it when its only metacharacter usage is a recognized
\* safe pipe and rejects it when it holds a metacharacter and no safe pipe.
C8_SafePipeOnly ==
  (ev.fn = "is_command_in_safe_mode_whitelist" /\ BeginsWithEntry(command)) =>
    /\ (HasMeta(command) /\ ~ HasUnrecognizedMeta(command)) => ev.ret = TRUE
    /\ (HasMeta(command) /\ ~ AnyIn(Lower(command), safe_pipes)) => ev.ret = FALSE

\* "ls -la | grep foo" is accepted
C8_Witness ==
  /\ ev.fn = "is_command_in_safe_mode_whitelist"
  /\ command = <<"l","s"," ","-","l","a"," ","|"," ","g","r","e","p"," ","f","o","o">>
  /\ ev.ret = TRUE

(***************************************************************************)
(* Further properties of the Execution Mediator (checked under Spec)       *)
(***************************************************************************)
\* the call spawned a process and r is what subprocess.run did
Ran(r) == result.runs # <<>> /\ result.runs[1].proc = r

\* C11: execute_command never lets an exception reach its caller: however
\* the collaborators behave, the call ends by returning a text and a status
\* among SUCCESS, WARNING and ERROR.
C11_NeverRaises ==
  Ended => (pc = "returned" /\ result.status \in {SUCCESS, WARNING, ERROR})

\* C12: a completed process with a non-zero exit code and stderr yields
\* "Error:\n" stderr "\n\nOutput:\n" stdout with ERROR; with exit code 0 and
\* stderr, the same after "Warnings:\n" with WARNING; with exit code 0 and no
\* stderr, stdout with SUCCESS, or the fixed no-output text when stdout is empty.
C12_OutcomeMapping ==
  (Ended /\ result.runs # <<>> /\ result.runs[1].proc.kind = "completed") =>
    LET r == result.runs[1].proc
    IN  /\ pc = "returned"
        /\ (r.returncode # 0 /\ r.stderr # <<>>) =>
             /\ result.output = << Lit("Error:\n"), Val(r.stderr),
                                   Lit("\n\nOutput:\n"), Val(r.stdout) >>
             /\ result.status = ERROR
        /\ (r.returncode = 0 /\ r.stderr # <<>>) =>
             /\ result.output = << Lit("Warnings:\n"), Val(r.stderr),
                                   Lit("\n\nOutput:\n"), Val(r.stdout) >>
             /\ result.status = WARNING
        /\ (r.returncode = 0 /\ r.stderr = <<>> /\ r.stdout # <<>>) =>
             /\ result.output = << Val(r.stdout) >>
             /\ result.status = SUCCESS
        /\ (r.returncode = 0 /\ r.stderr = <<>> /\ r.stdout = <<>>) =>
             /\ result.output = << Lit("Command executed successfully (no output)") >>
             /\ result.status = SUCCESS

\* "echo hi" exits with code 0 after writing to stdout and to stderr
C12_Witness ==
  /\ pc = "returned"
  /\ command = <<"e","c","h","o"," ","h","i">>
  /\ Ran([kind |-> "completed", returncode |-> 0, stdout |-> <<"o","u","t">>,
          stderr |-> <<"e","r","r">>, alive |-> FALSE])
  /\ result.status = WARNING

\* C13: when the process outlives the timeout, execute_command returns
\* "Command timed out after <timeout> seconds" with ERROR, naming the timeout
\* it was called with, and no process started by the call is still running.
C13_TimeoutTerminates ==
  (Ended /\ result.runs # <<>> /\ result.runs[1].proc.kind = "TimeoutExpired") =>
    /\ pc = "returned"
    /\ result.output = << Lit("Command timed out after "), Val(IntToStr(timeout)),
                          Lit(" seconds") >>
    /\ result.status = ERROR
    /\ ~ result.runs[1].proc.alive

\* the outcome is the safe-mode rejection of the command
IsSafeModeRejection == result.output = safe_mode_message(command)

\* C20: a call with safe_mode on that reaches the preview or the Process
\* Runner ends as the same call with safe_mode off can end, so what runs
\* under safe mode also runs without it; and a denylisted command ends the
\* same way in both modes.
C20_SafeModeOnlyRestricts ==
  /\ (Ended /\ safe_mode /\ ~ IsSafeModeRejection) =>
       result \in execute_command(command, timeout, dry_run, FALSE)
  /\ (Ended /\ ~ is_command_safe(command)) =>
       result \in execute_command(command, timeout, dry_run, ~ safe_mode)

\* "ls -la | grep foo" is executed under safe mode
C20_Witness ==
  /\ pc = "returned"
  /\ safe_mode /\ ~ dry_run
  /\ command = <<"l","s"," ","-","l","a"," ","|"," ","g","r","e","p"," ","f","o","o">>
  /\ result.runs # <<>>
  /\ result.status = SUCCESS

\* C21: the command handed to subprocess.run is the string execute_command
\* was called with, character for character (not the trimmed or lowercased
\* copy the evaluator matches on), and it runs under the timeout of the call.
C21_RunsCommandAsGiven ==
  (Ended /\ result.runs # <<>>) =>
    /\ Len(result.runs) = 1
    /\ result.runs[1].command = command
    /\ result.runs[1].timeout = timeout

\* a command with upper-case letters and a trailing blank has been run
C21_Witness ==
  /\ pc = "returned"
  /\ result.runs # <<>>
  /\ command # Lower(command)
  /\ command # Strip(command)
  /\ result.runs[1].command = command

\* C23: the branch a call ended in
BranchOf(r, cmd) ==
  IF r.raised THEN "preview"
  ELSE IF r.output = << Lit("Command blocked for safety") >> THEN "block"
  ELSE IF r.output = safe_mode_message(cmd) THEN "rejection"
  ELSE IF IsPreview(r.output) THEN "preview"
  ELSE "execution"

\* the command followed by a risk term, which estimate_command_risk rates HIGH
WithRiskTerm(cmd) == cmd \o <<" ","r","m">>

\* C23: whatever estimate_command_risk says, a call takes the branch that
\* another command with the same is_command_safe and safe-mode-whitelist
\* verdicts takes under the same arguments (here the command followed by a
\* risk term, rated HIGH); and a command rated HIGH that is not denylisted is
\* executed when dry_run and safe_mode are off.
C23_RiskIsAdvisory ==
  Ended =>
    LET safe   == is_command_safe(command)
        listed == is_command_in_safe_mode_whitelist(command)
        branch == BranchOf(result, command)
        other  == WithRiskTerm(command)
    IN  /\ ( /\ is_command_safe(other) = safe
             /\ is_command_in_safe_mode_whitelist(other) = listed )
           => \A r \in execute_command(other, timeout, dry_run, safe_mode) :
                BranchOf(r, other) = branch
        /\ (estimate_command_risk(command) = "HIGH" /\ safe /\ ~ dry_run /\ ~ safe_mode)
           => branch = "execution"

\* "rm file.txt", rated HIGH, has been handed to subprocess.run
C23_Witness ==
  /\ pc = "returned"
  /\ command = <<"r","m"," ","f","i","l","e",".","t","x","t">>
  /\ estimate_command_risk(command) = "HIGH"
  /\ ~ dry_run /\ ~ safe_mode
  /\ result.runs # <<>>
  /\ result.runs[1].command = command

\* C28: a process that exits with a non-zero code is never reported as
\* SUCCESS, whether or not it wrote to stderr.
C28_SuccessOnlyOnExitZero ==
  (Ended /\ result.runs # <<>> /\ result.runs[1].proc.kind = "completed"
         /\ result.status = SUCCESS)
    => result.runs[1].proc.returncode = 0

(***************************************************************************)
(* Properties of estimate_command_risk (checked under SpecEval)            *)
(***************************************************************************)
\* rm, delete, sudo, chmod, chown, format, mkfs
RiskTerms ==
  { <<"r","m">>, <<"d","e","l","e","t","e">>, <<"s","u","d","o">>,
    <<"c","h","m","o","d">>, <<"c","h","o","w","n">>,
    <<"f","o","r","m","a","t">>, <<"m","k","f","s">> }

\* C22: estimate_command_risk returns "HIGH" exactly when the lowercased
\* command contains one of the seven risk terms and "LOW" otherwise, and it
\* returns the same for the command in upper and in lower case.
C22_RiskEstimate ==
  (ev.fn = "estimate_command_risk") =>
    /\ (ev.ret = "HIGH") <=> (\E t \in RiskTerms : Contains(Lower(command), t))
    /\ ev.ret \in {"HIGH", "LOW"}
    /\ estimate_command_risk(Upper(command)) = ev.ret
    /\ estimate_command_risk(Lower(command)) = ev.ret

\* a command holding a risk term in upper case only has been rated HIGH
C22_Witness ==
  /\ ev.fn = "estimate_command_risk"
  /\ ev.ret = "HIGH"
  /\ ~ \E t \in RiskTerms : Contains(command, t)

(***************************************************************************)
(* The History Recorder: CommandEntry, add_to_history and, in app.py,      *)
(* AppState.add_command                                                    *)
(***************************************************************************)
\* datetime.now().strftime("%H:%M:%S"): the clock reading, one value
Now == <<"1","2",":","0","0",":","0","0">>

\* datetime.now().strftime("%Y-%m-%d")
Today == <<"2","0","2","6","-","0","1","-","0","1">>

\* len() of one part of a text
PartLen(p) == Len(p.lit) + Len(p.val)

\* len(text)
RECURSIVE TextLen(_)
TextLen(text) ==
  IF text = <<>> THEN 0 ELSE PartLen(Head(text)) + TextLen(Tail(text))

\* the first n characters of one part
PartSlice(p, n) ==
  IF p.val = <<>> THEN Lit(SubSeq(p.lit, 1, n)) ELSE Val(SubSeq(p.val, 1, n))

\* text[:n]
RECURSIVE TextSlice(_, _)
TextSlice(text, n) ==
  IF n = 0 \/ text = <<>> THEN <<>>
  ELSE IF PartLen(Head(text)) <= n
       THEN <<Head(text)>> \o TextSlice(Tail(text), n - PartLen(Head(text)))
       ELSE <<PartSlice(Head(text), n)>>

\* CommandEntry.__post_init__ with the limit reached one character early
post_init_output_truncates_at_limit(output) ==
  IF TextLen(output) >= 500 THEN TextSlice(output, 500) \o <<Lit("...")>> ELSE output

\* CommandEntry.__post_init__: output longer than 500 characters is cut to
\* its first 500 characters followed by "..."
post_init_output(output) ==
  IF TextLen(output) > 500 THEN TextSlice(output, 500) \o <<Lit("...")>> ELSE output

\* core.models.CommandEntry(timestamp, prompt, command, output, status)
CommandEntry(timestamp, prompt, cmd, output, status) ==
  [timestamp |-> timestamp, prompt |-> prompt, command |-> cmd,
   output |-> post_init_output(output), status |-> status]

\* app.py's CommandEntry: full_output defaults to the output as given, then
\* output is cut
app_CommandEntry(timestamp, date, prompt, cmd, output, status, full_output) ==
  [timestamp |-> timestamp, date |-> date, prompt |-> prompt, command |-> cmd,
   output |-> post_init_output(output), status |-> status,
   full_output |-> IF TextLen(full_output) = 0 THEN output ELSE full_output]

\* add_to_history putting the new entry first
add_to_history_prepends(history, prompt, cmd, output, status) ==
  LET entry == CommandEntry(Now, prompt, cmd, output, status)
  IN  [history |-> <<entry>> \o history, entry |-> entry]

\* core.history.add_to_history: the list after the call and the entry returned
add_to_history(history, prompt, cmd, output, status) ==
  LET entry == CommandEntry(Now, prompt, cmd, output, status)
  IN  [history |-> Append(history, entry), entry |-> entry]

\* lst[-n:] of Python for n >= 0; -0 is 0, so lst[-0:] is the whole list
SliceLast(lst, n) ==
  IF n = 0 \/ n >= Len(lst) THEN lst ELSE SubSeq(lst, Len(lst) - n + 1, Len(lst))

\* app.py's AppState.add_command on the list objects ls, the history being
\* bound to ls[c]: append in place, then rebind to a new list holding the
\* slice when the length exceeds the cap
add_command(ls, c, cap, entry) ==
  LET after == [ls EXCEPT ![c] = Append(@, entry)]
  IN  IF Len(after[c]) > cap
      THEN [lists |-> Append(after, SliceLast(after[c], cap)), cur |-> Len(after) + 1]
      ELSE [lists |-> after, cur |-> c]

\* app.py's add_to_history
app_add_to_history(ls, c, cap, prompt, cmd, output, status) ==
  add_command(ls, c, cap,
              app_CommandEntry(Now, Today, prompt, cmd, output, status, output))

(***************************************************************************)
(* The History Recorder as a state machine: recorder calls with arguments  *)
(* drawn from small sets, on a history that starts empty.                  *)
(***************************************************************************)
\* most recorder calls in one behaviour
MaxAdds == 2

\* largest configured cap
MaxCap == 2

\* a text of n characters whose i-th character is the last digit of i
TextOfLen(n) == << Val([i \in 1..n |-> DIGITS[(i % 10) + 1]]) >>

\* outputs recorded: empty, exactly at the limit, and one past it
Outputs == { <<>>, TextOfLen(500), TextOfLen(501) }

Prompts == { <<"l","i","s","t"," ","f","i","l","e","s">> }

RecordedCommands == { <<"l","s">> }

Statuses == {SUCCESS, ERROR}

\* the history of app.py's AppState
app_command_history == lists[cur]

InitHistory ==
  /\ command = <<>>
  /\ timeout = DefaultTimeout
  /\ dry_run = FALSE
  /\ safe_mode = FALSE
  /\ pc = "idle"
  /\ result = NoResult
  /\ ev = NoEval
  /\ PresenterAtRest
  /\ returned = NoEntry
  /\ calls = <<>>
  /\ lists = << <<>> >>
  /\ cur = 1
  /\ max_history_entries \in 0..MaxCap
  /\ ThreadsAtRest

AddToHistory ==
  /\ Len(calls) < MaxAdds
  /\ \E prompt \in Prompts, cmd \in RecordedCommands, output \in Outputs,
        status \in Statuses :
       LET r == add_to_history(app_state.command_history, prompt, cmd, output, status)
       IN  /\ app_state' = [app_state EXCEPT !.command_history = r.history]
           /\ returned' = r.entry
           /\ calls' = Append(calls, [fn |-> "add_to_history", prompt |-> prompt,
                                      command |-> cmd, output |-> output,
                                      status |-> status])
  /\ UNCHANGED <<callVars, ui, entered, serviceVars, lists, cur, max_history_entries, threadVars>>

AppAddToHistory ==
  /\ Len(calls) < MaxAdds
  /\ \E prompt \in Prompts, cmd \in RecordedCommands, output \in Outputs,
        status \in Statuses :
       LET r == app_add_to_history(lists, cur, max_history_entries, prompt, cmd,
                                   output, status)
       IN  /\ lists' = r.lists
           /\ cur' = r.cur
           /\ calls' = Append(calls, [fn |-> "app.add_to_history", prompt |-> prompt,
                                      command |-> cmd, output |-> output,
                                      status |-> status])
  /\ UNCHANGED <<callVars, presenterVars, returned, max_history_entries, threadVars>>

NextHistory == AddToHistory \/ AppAddToHistory

SpecHistory == InitHistory /\ [][NextHistory]_vars

(***************************************************************************)
(* Properties of the History Recorder (checked under SpecHistory)          *)
(***************************************************************************)
\* the characters of a literal
Chars(s) == [i \in 1..Len(s) |-> SubSeq(s, i, i)]

\* the characters of a text, part after part
RECURSIVE Flat(_)
Flat(text) ==
  IF text = <<>> THEN <<>>
  ELSE (IF Head(text).val = <<>> THEN Chars(Head(text).lit) ELSE Head(text).val)
         \o Flat(Tail(text))

\* what the log is to hold for an output of characters cs
Stored(cs) ==
  IF Len(cs) <= 500 THEN cs ELSE SubSeq(cs, 1, 500) \o <<".",".",".">>

\* the calls made to the recorder fn, in order
CallsOf(fn) == SelectSeq(calls, LAMBDA c : c.fn = fn)

\* C15: every output in the log is the recorded output itself when that has at
\* most 500 characters, and its first 500 characters followed by "..." (503
\* characters) when it has more; full_output, where kept, is the whole text.
C15_OutputTruncation ==
  /\ \A i \in DOMAIN app_state.command_history :
       /\ i \in DOMAIN CallsOf("add_to_history")
       /\ Flat(app_state.command_history[i].output)
            = Stored(Flat(CallsOf("add_to_history")[i].output))
  /\ \A i \in DOMAIN app_command_history :
       \E j \in DOMAIN calls :
         /\ calls[j].fn = "app.add_to_history"
         /\ Flat(app_command_history[i].full_output) = Flat(calls[j].output)
         /\ Flat(app_command_history[i].output) = Stored(Flat(calls[j].output))

\* both logs hold an output that was cut: 501 characters recorded, 503 stored
C15_Witness ==
  /\ \E i \in DOMAIN app_state.command_history :
       /\ TextLen(CallsOf("add_to_history")[i].output) = 501
       /\ Len(Flat(app_state.command_history[i].output)) = 503
  /\ \E i \in DOMAIN app_command_history :
       /\ Len(Flat(app_command_history[i].full_output)) = 501
       /\ Len(Flat(app_command_history[i].output)) = 503

\* C16: the log that add_to_history appends to never holds more entries than
\* the configured cap.
C16_LogCapped == Len(app_state.command_history) <= max_history_entries

\* the n most recent entries of lst, oldest first
MostRecent(lst, n) ==
  IF n >= Len(lst) THEN lst ELSE SubSeq(lst, Len(lst) - n + 1, Len(lst))

\* the entry app.py's add_to_history builds for a call
AppEntryOf(c) ==
  app_CommandEntry(Now, Today, c.prompt, c.command, c.output, c.status, c.output)

\* the entries app.py's add_to_history has built so far, in order
AppEntries ==
  LET cs == CallsOf("app.add_to_history")
  IN  [i \in DOMAIN cs |-> AppEntryOf(cs[i])]

\* C17: after any sequence of add_command calls under a cap c >= 0 the log of
\* app.py holds at most c entries, and they are the most recent ones in
\* order.
C17_CapKeepsMostRecent ==
  /\ Len(app_command_history) <= max_history_entries
  /\ app_command_history = MostRecent(AppEntries, max_history_entries)

\* C18: each add_to_history call leaves the earlier entries in place and in
\* order, puts exactly one new entry after them, carrying the call's prompt,
\* command, status and (cut) output, and returns that entry.
C18_AppendOnly ==
  LET cs == CallsOf("add_to_history")
      h  == app_state.command_history
  IN  /\ Len(h) = Len(cs)
      /\ \A i \in DOMAIN h :
           /\ h[i].prompt = cs[i].prompt
           /\ h[i].command = cs[i].command
           /\ h[i].status = cs[i].status
           /\ Flat(h[i].output) = Stored(Flat(cs[i].output))
      /\ (cs # <<>>) => returned = h[Len(h)]

\* two calls with different outputs have been recorded, in that order
C18_Witness ==
  /\ Len(app_state.command_history) = 2
  /\ app_state.command_history[1].output # app_state.command_history[2].output
  /\ returned = app_state.command_history[2]

(***************************************************************************)
(* Concurrent recorder calls: each thread makes one call, of app.py's      *)
(* add_to_history (AppState.add_command, statement by statement) or of     *)
(* core.history.add_to_history.  list.append and an attribute load or      *)
(* store are atomic; a thread switch can happen between any two of them.   *)
(***************************************************************************)
\* threads that record concurrently
MaxThreads == 3

Threads == 1..MaxThreads

ThreadIdle == [pc |-> "idle", fn |-> "none", entry |-> NoEntry, ref |-> 0, tmp |-> <<>>]

\* the command thread t records
ThreadCommand(t) == <<"c", DIGITS[t + 1]>>

ThreadOutput == << Val(<<"o","u","t">>) >>

InitConcurrent ==
  /\ command = <<>>
  /\ timeout = DefaultTimeout
  /\ dry_run = FALSE
  /\ safe_mode = FALSE
  /\ pc = "idle"
  /\ result = NoResult
  /\ ev = NoEval
  /\ PresenterAtRest
  /\ returned = NoEntry
  /\ calls = <<>>
  /\ lists = << <<>> >>
  /\ cur = 1
  /\ max_history_entries \in 0..MaxCap
  /\ thr = [t \in Threads |-> ThreadIdle]
  /\ appended = <<>>

\* app.py add_to_history, lines 267-276: the entry is built and add_command
\* is entered
EnterAddCommand(t) ==
  /\ thr[t].pc = "idle"
  /\ \E prompt \in Prompts :
       thr' = [thr EXCEPT ![t] =
                 [@ EXCEPT !.pc = "load", !.fn = "add_command",
                           !.entry = app_CommandEntry(Now, Today, prompt, ThreadCommand(t),
                                                      ThreadOutput, SUCCESS, ThreadOutput)]]
  /\ UNCHANGED <<callVars, presenterVars, historyVars, appended>>

\* line 85, self.command_history: the list object is loaded
LoadHistory(t) ==
  /\ thr[t].pc = "load"
  /\ thr' = [thr EXCEPT ![t] = [@ EXCEPT !.pc = "append", !.ref = cur]]
  /\ UNCHANGED <<callVars, presenterVars, historyVars, appended>>

\* line 85, .append(entry): the entry is appended to the loaded list object
ListAppend(t) ==
  /\ thr[t].pc = "append"
  /\ lists' = [lists EXCEPT ![thr[t].ref] = Append(@, thr[t].entry)]
  /\ appended' = Append(appended, thr[t].entry)
  /\ thr' = [thr EXCEPT ![t] = [@ EXCEPT !.pc = "check"]]
  /\ UNCHANGED <<callVars, presenterVars, returned, calls, cur, max_history_entries>>

\* line 86: len(self.command_history) > self.config.max_history_entries
CheckLength(t) ==
  /\ thr[t].pc = "check"
  /\ thr' = [thr EXCEPT ![t] =
               [@ EXCEPT !.pc = IF Len(lists[cur]) > max_history_entries
                                THEN "slice" ELSE "done"]]
  /\ UNCHANGED <<callVars, presenterVars, historyVars, appended>>

\* line 87, right-hand side: a new list holding the slice
SliceHistory(t) ==
  /\ thr[t].pc = "slice"
  /\ thr' = [thr EXCEPT ![t] =
               [@ EXCEPT !.pc = "store", !.tmp = SliceLast(lists[cur], max_history_entries)]]
  /\ UNCHANGED <<callVars, presenterVars, historyVars, appended>>

\* line 87, assignment: self.command_history is bound to the new list
StoreHistory(t) ==
  /\ thr[t].pc = "store"
  /\ lists' = Append(lists, thr[t].tmp)
  /\ cur' = Len(lists) + 1
  /\ thr' = [thr EXCEPT ![t] = [@ EXCEPT !.pc = "done"]]
  /\ UNCHANGED <<callVars, presenterVars, returned, calls, max_history_entries, appended>>

\* core.history.add_to_history called by a presenter handler: the entry is
\* built (lines 17-23)
EnterAddToHistory(t) ==
  /\ thr[t].pc = "idle"
  /\ \E prompt \in Prompts :
       thr' = [thr EXCEPT ![t] =
                 [@ EXCEPT !.pc = "core_append", !.fn = "add_to_history",
                           !.entry = CommandEntry(Now, prompt, ThreadCommand(t),
                                                  ThreadOutput, SUCCESS)]]
  /\ UNCHANGED <<callVars, presenterVars, historyVars, appended>>

\* core.history.add_to_history, line 24: history.append(entry)
CoreListAppend(t) ==
  /\ thr[t].pc = "core_append"
  /\ app_state' = [app_state EXCEPT !.command_history = Append(@, thr[t].entry)]
  /\ thr' = [thr EXCEPT ![t] = [@ EXCEPT !.pc = "done"]]
  /\ UNCHANGED <<callVars, ui, entered, serviceVars, historyVars, appended>>

NextConcurrent ==
  \E t \in Threads :
    \/ EnterAddCommand(t)
    \/ LoadHistory(t)
    \/ ListAppend(t)
    \/ CheckLength(t)
    \/ SliceHistory(t)
    \/ StoreHistory(t)
    \/ EnterAddToHistory(t)
    \/ CoreListAppend(t)

SpecConcurrent == InitConcurrent /\ [][NextConcurrent]_vars

\* every thread has finished its call
AllDone == \A t \in Threads : thr[t].pc = "done"

\* the number of positions of lst that hold e
Occurrences(lst, e) == Cardinality({i \in DOMAIN lst : lst[i] = e})

\* C19: once all concurrent recorder calls have finished, the log of app.py
\* holds the most recent entries, up to the cap, in the order their appends
\* took effect, and the log of the presenter holds the entry of each of its
\* calls exactly once: nothing is lost, duplicated or out of order.
C19_ConcurrentAppendsSerialized ==
  AllDone =>
    /\ app_command_history = MostRecent(appended, max_history_entries)
    /\ \A t \in Threads :
         thr[t].fn = "add_to_history" =>
           Occurrences(app_state.command_history, thr[t].entry) = 1

(***************************************************************************)
(* The Command Generator: generate_command, given how the Ollama request   *)
(* ends                                                                    *)
(***************************************************************************)
\* s.replace(old, "") for a non-empty old: occurrences are removed left to right
RECURSIVE Remove(_, _)
Remove(s, old) ==
  IF Len(s) < Len(old) THEN s
  ELSE IF OccursAt(s, old, 1)
       THEN Remove(SubSeq(s, Len(old) + 1, Len(s)), old)
       ELSE <<Head(s)>> \o Remove(Tail(s), old)

FENCE == <<BACKTICK, BACKTICK, BACKTICK>>

\* the texts the model answers with: a bare command, a denylisted one, a
\* fenced one, and an empty answer
Responses ==
  { <<"l","s">>,
    <<"r","m"," ","-","r","f"," ","/">>,
    FENCE \o <<"\n","l","s","\n">> \o FENCE,
    <<>> }

\* how requests.post(...) and resp.json() can end
OllamaReplies ==
  [kind : {"response"}, text : Responses]
    \cup { [kind |-> k, text |-> <<>>] :
             k \in {"no_response_key", "ConnectionError", "Timeout", "Exception"} }

\* generate_command(prompt, ollama_url, ollama_model, timeout) when the
\* request ends as reply
generate_command(prompt, reply) ==
  CASE reply.kind = "response" ->
         [command |-> Strip(Remove(Strip(reply.text), FENCE)), status |-> SUCCESS]
    [] reply.kind = "no_response_key" ->
         [command |-> <<>>, status |-> ERROR]
    [] reply.kind = "ConnectionError" ->
         [command |-> <<"C","a","n","n","o","t"," ","c","o","n","n","e","c","t"," ","t","o"," ","O","l","l","a","m","a","."," ","P","l","e","a","s","e"," ","r","u","n",":"," ","o","l","l","a","m","a"," ","s","e","r","v","e">>,
          status |-> ERROR]
    [] reply.kind = "Timeout" ->
         [command |-> <<"R","e","q","u","e","s","t"," ","t","i","m","e","d"," ","o","u","t","."," ","T","r","y"," ","a"," ","s","i","m","p","l","e","r"," ","p","r","o","m","p","t",".">>,
          status |-> WARNING]
    [] OTHER ->
         [command |-> <<"E","r","r","o","r",":"," ","b","o","o","m">>, status |-> ERROR]

(***************************************************************************)
(* The Presenter: CommandPresenter's handlers.  Each gives the set of ways *)
(* the handler can end: the state it leaves, the updates it returns, and   *)
(* the execute_command calls it made.                                      *)
(***************************************************************************)
\* gr.update(value=v, visible=True)
Shown(v) == GrUpdate(TRUE, v, "True")

\* gr.update(value=v, visible=False)
Hidden(v) == GrUpdate(TRUE, v, "False")

\* one execute_command call of a handler and how it ended
Mediation(cmd, st, r) ==
  [command |-> cmd, timeout |-> st.config.command_timeout,
   dry_run |-> st.dry_run_mode, safe_mode |-> st.safe_mode, result |-> r]

\* the environment the presenter runs in: os.getlogin() gives a name or
\* raises, SHELL is set, and the processes its commands start end in one of
\* four ways: output and exit code 0, an error and exit code 1, a timeout that
\* leaves a process behind, a failure to start
PresenterProcs ==
  { p \in SubprocessRun :
      \/ p.kind = "completed" /\ p.returncode = 0 /\ p.stdout # <<>> /\ p.stderr = <<>>
      \/ p.kind = "completed" /\ p.returncode = 1 /\ p.stdout = <<>> /\ p.stderr # <<>>
      \/ p.kind = "TimeoutExpired" /\ p.alive
      \/ p.kind = "Exception" }

\* execute_command(command, self.app_state.config.command_timeout,
\* self.app_state.dry_run_mode, self.app_state.safe_mode): the ways the call
\* can end
mediate(st, cmd) ==
  { r \in execute_command(cmd, st.config.command_timeout, st.dry_run_mode, st.safe_mode) :
      /\ r.runs # <<>> => r.runs[1].proc \in PresenterProcs
      /\ \A i \in DOMAIN r.output : r.output[i] \notin {Lit("current user"), Lit("default")} }

\* a call of handler with arguments args, nothing returned yet
Calling(handler, args) == [NoUi EXCEPT !.handler = handler, !.args = args]

\* the handler ended by the exception execute_command raised
HandlerRaised(call) == [call EXCEPT !.raised = TRUE]

\* process_prompt from the execute_command call on (lines 47-62)
process_prompt_execute(st, prompt, cmd, call) ==
  { IF r.raised
    THEN [app_state |-> st,
          ui |-> HandlerRaised(call),
          mediations |-> << Mediation(cmd, st, r) >>]
    ELSE [app_state |->
            [st EXCEPT !.command_history =
               add_to_history(@, prompt, cmd, r.output, r.status).history],
          ui |-> [call EXCEPT !.command_display = Shown(cmd),
                              !.output_display = Shown(r.output),
                              !.status_message = Shown(<<Lit("Command executed")>>)],
          mediations |-> << Mediation(cmd, st, r) >>]
    : r \in mediate(st, cmd) }

\* process_prompt that executes every generated command, asked to or not
process_prompt_generated_always_executes(st, prompt, execute_immediately, g, call) ==
  LET generated == [call EXCEPT !.generator_called = TRUE,
                                !.generator_status = g.status]
  IN  IF g.status = ERROR
      THEN { [app_state |-> st,
              ui |-> [generated EXCEPT
                        !.command_display = Hidden(<<>>),
                        !.output_display = Shown(<<Val(g.command)>>),
                        !.status_message = Shown(<<Lit("Failed to generate command")>>)],
              mediations |-> <<>>] }
      ELSE process_prompt_execute(st, prompt, g.command, generated)

\* process_prompt once generate_command has returned g (lines 38-69)
process_prompt_generated(st, prompt, execute_immediately, g, call) ==
  LET generated == [call EXCEPT !.generator_called = TRUE,
                                !.generator_status = g.status]
  IN  IF g.status = ERROR
      THEN { [app_state |-> st,
              ui |-> [generated EXCEPT
                        !.command_display = Hidden(<<>>),
                        !.output_display = Shown(<<Val(g.command)>>),
                        !.status_message = Shown(<<Lit("Failed to generate command")>>)],
              mediations |-> <<>>] }
      ELSE IF execute_immediately /\ g.status = SUCCESS
           THEN process_prompt_execute(st, prompt, g.command, generated)
           ELSE { [app_state |-> st,
                   ui |-> [generated EXCEPT
                             !.command_display = Shown(g.command),
                             !.output_display = Hidden(<<>>),
                             !.status_message = Shown(<<Lit("Command generated")>>)],
                   mediations |-> <<>>] }

\* CommandPresenter.process_prompt(prompt, execute_immediately)
process_prompt(st, prompt, execute_immediately) ==
  LET call == Calling("process_prompt",
                      [NoArgs EXCEPT !.prompt = prompt,
                                     !.execute_immediately = execute_immediately])
  IN  IF Strip(prompt) = <<>>
      THEN { [app_state |-> st,
              ui |-> [call EXCEPT
                        !.command_display = Hidden(<<>>),
                        !.output_display =
                           Shown(<<Lit("Please enter a command or description")>>),
                        !.status_message =
                           Shown(<<Lit("Please enter a command request")>>)],
              mediations |-> <<>>] }
      ELSE UNION { process_prompt_generated(st, prompt, execute_immediately,
                                            generate_command(prompt, reply), call)
                   : reply \in OllamaReplies }

\* "Manual execution"
MANUAL_EXECUTION ==
  <<"M","a","n","u","a","l"," ","e","x","e","c","u","t","i","o","n">>

\* CommandPresenter.execute_displayed_command(command)
execute_displayed_command(st, cmd) ==
  LET call == Calling("execute_displayed_command", [NoArgs EXCEPT !.command = cmd])
  IN  IF Strip(cmd) = <<>>
      THEN { [app_state |-> st,
              ui |-> [call EXCEPT
                        !.output_display = Shown(<<Lit("No command to execute")>>),
                        !.status_message =
                           Shown(<<Lit("Please generate a command first")>>)],
              mediations |-> <<>>] }
      ELSE { IF r.raised
             THEN [app_state |-> st,
                   ui |-> HandlerRaised(call),
                   mediations |-> << Mediation(cmd, st, r) >>]
             ELSE [app_state |->
                     [st EXCEPT !.command_history =
                        add_to_history(@, MANUAL_EXECUTION, cmd, r.output,
                                       r.status).history],
                   ui |-> [call EXCEPT
                             !.output_display = Shown(r.output),
                             !.status_message = Shown(<<Lit("Command executed")>>)],
                   mediations |-> << Mediation(cmd, st, r) >>]
             : r \in mediate(st, cmd) }

\* CommandPresenter.clear_interface()
clear_interface(st) ==
  [app_state |-> st,
   ui |-> [Calling("clear_interface", NoArgs) EXCEPT
             !.command_display = Hidden(<<>>),
             !.output_display = Hidden(<<>>),
             !.status_message = Shown(<<Lit("Ready for new command")>>)],
   mediations |-> <<>>]

\* the mode line of CommandPresenter.refresh_status()
mode_status(st) ==
  IF st.dry_run_mode /\ st.safe_mode
    THEN <<Lit("DRY RUN MODE ACTIVE"), Lit(" | "), Lit("SAFE MODE ACTIVE")>>
  ELSE IF st.dry_run_mode THEN <<Lit("DRY RUN MODE ACTIVE")>>
  ELSE IF st.safe_mode THEN <<Lit("SAFE MODE ACTIVE")>>
  ELSE <<Lit("Live execution mode")>>

\* CommandPresenter.refresh_status(), the Ollama status line left out
refresh_status(st, call) ==
  [call EXCEPT !.system_status = GrUpdate(TRUE, mode_status(st), "unset")]

\* toggle_dry_run that flips the flag instead of setting it
toggle_dry_run_flips(st, is_enabled) ==
  LET after == [st EXCEPT !.dry_run_mode = ~ @]
      call  == Calling("toggle_dry_run", [NoArgs EXCEPT !.is_enabled = is_enabled])
  IN  [app_state |-> after, ui |-> refresh_status(after, call), mediations |-> <<>>]

\* CommandPresenter.toggle_dry_run(is_enabled)
toggle_dry_run(st, is_enabled) ==
  LET after == [st EXCEPT !.dry_run_mode = is_enabled]
      call  == Calling("toggle_dry_run", [NoArgs EXCEPT !.is_enabled = is_enabled])
  IN  [app_state |-> after, ui |-> refresh_status(after, call), mediations |-> <<>>]

\* CommandPresenter.toggle_safe_mode(is_enabled)
toggle_safe_mode(st, is_enabled) ==
  LET after == [st EXCEPT !.safe_mode = is_enabled]
      call  == Calling("toggle_safe_mode", [NoArgs EXCEPT !.is_enabled = is_enabled])
  IN  [app_state |-> after, ui |-> refresh_status(after, call), mediations |-> <<>>]

(***************************************************************************)
(* The Presenter as a state machine: handlers called in any order on one   *)
(* AppState, with prompts, displayed commands and Ollama replies drawn     *)
(* from small sets.                                                        *)
(***************************************************************************)
\* most execute_command calls in one behaviour
MaxCalls == 1

\* what the user types: nothing, blanks, a request
PromptInputs == { <<>>, <<" "," ">>, <<"l","i","s","t"," ","f","i","l","e","s">> }

\* what the command display holds when the user presses execute
DisplayedCommands ==
  { <<>>, <<" ">>, <<"r","m"," ","-","r","f"," ","/">>, <<"t","o","u","c","h"," ","x">> }

InitPresenter ==
  /\ command = <<>>
  /\ timeout = DefaultTimeout
  /\ dry_run = FALSE
  /\ safe_mode = FALSE
  /\ pc = "idle"
  /\ result = NoResult
  /\ ev = NoEval
  /\ PresenterAtRest
  /\ HistoryAtRest
  /\ ThreadsAtRest

\* the handler ends as o
Handled(o) ==
  /\ app_state' = o.app_state
  /\ ui' = o.ui
  /\ entered' = entered \o o.mediations

ProcessPrompt ==
  /\ \E prompt \in PromptInputs, execute_immediately \in BOOLEAN :
       /\ execute_immediately => Len(entered) < MaxCalls
       /\ \E o \in process_prompt(app_state, prompt, execute_immediately) : Handled(o)
  /\ UNCHANGED <<callVars, serviceVars, historyVars, threadVars>>

ExecuteDisplayedCommand ==
  /\ Len(entered) < MaxCalls
  /\ \E cmd \in DisplayedCommands :
       \E o \in execute_displayed_command(app_state, cmd) : Handled(o)
  /\ UNCHANGED <<callVars, serviceVars, historyVars, threadVars>>

ClearInterface ==
  /\ Handled(clear_interface(app_state))
  /\ UNCHANGED <<callVars, serviceVars, historyVars, threadVars>>

ToggleDryRun ==
  /\ \E is_enabled \in BOOLEAN : Handled(toggle_dry_run(app_state, is_enabled))
  /\ UNCHANGED <<callVars, serviceVars, historyVars, threadVars>>

ToggleSafeMode ==
  /\ \E is_enabled \in BOOLEAN : Handled(toggle_safe_mode(app_state, is_enabled))
  /\ UNCHANGED <<callVars, serviceVars, historyVars, threadVars>>

NextPresenter ==
  \/ ProcessPrompt
  \/ ExecuteDisplayedCommand
  \/ ClearInterface
  \/ ToggleDryRun
  \/ ToggleSafeMode

SpecPresenter == InitPresenter /\ [][NextPresenter]_vars

(***************************************************************************)
(* Properties of the Presenter (checked under SpecPresenter)               *)
(***************************************************************************)
\* C14: the history holds one entry for each execute_command call the
\* presenter has entered, in order, carrying that call's command, status and
\* output (cut as the log cuts it), and nothing else.
C14_OneEntryPerMediation ==
  /\ Len(app_state.command_history) = Len(entered)
  /\ \A i \in DOMAIN app_state.command_history :
       /\ i \in DOMAIN entered
       /\ app_state.command_history[i].command = entered[i].command
       /\ app_state.command_history[i].status = entered[i].result.status
       /\ Flat(app_state.command_history[i].output)
            = Stored(Flat(entered[i].result.output))

\* C24: when generate_command returned a status other than SUCCESS,
\* process_prompt returns an empty hidden command display, the generator's
\* message in the output display and the status text "Failed to generate
\* command", which a call that executed or offered a command never returns.
C24_GenerationFailureShown ==
  (ui.handler = "process_prompt" /\ ui.generator_called
     /\ ui.generator_status # SUCCESS) =>
    /\ ~ ui.raised
    /\ ui.command_display = Hidden(<<>>)
    /\ ui.output_display.set /\ ui.output_display.visible = "True"
    /\ ui.status_message = Shown(<<Lit("Failed to generate command")>>)

\* the step is a process_prompt call that was not asked to execute, or whose
\* prompt is empty or blank
NoExecutionRequested ==
  /\ ui'.handler = "process_prompt"
  /\ ~ ui'.args.execute_immediately \/ Strip(ui'.args.prompt) = <<>>

\* C25: a process_prompt call with execute_immediately false, or with an
\* empty or blank prompt, enters no mediation and leaves the history, both
\* modes and the configuration as they were; with an empty or blank prompt it
\* does not call the generator either.
C25_NoExecutionWithoutRequest ==
  [][ NoExecutionRequested =>
        /\ entered' = entered
        /\ app_state' = app_state
        /\ ~ ui'.raised
        /\ Strip(ui'.args.prompt) = <<>> => ~ ui'.generator_called ]_vars

\* a command was generated and shown, not executed
C25_Witness ==
  /\ ui.handler = "process_prompt"
  /\ ~ ui.args.execute_immediately
  /\ ui.generator_called /\ ui.generator_status = SUCCESS
  /\ ui.command_display = Shown(<<"l","s">>)
  /\ entered = <<>>
  /\ app_state.command_history = <<>>

\* the mediation the step entered, if it entered one
Entered == entered'[Len(entered')]

\* C26: toggle_dry_run(b) and toggle_safe_mode(b) leave the flag equal to b
\* and nothing else changes a flag; every execute_command call of the
\* presenter gets the flags the state holds when the handler starts; and a
\* handler that starts while dry_run_mode is on never reaches the Process
\* Runner.
C26_ModeFlagsHonoured ==
  [][ /\ ui'.handler = "toggle_dry_run" => app_state'.dry_run_mode = ui'.args.is_enabled
      /\ ui'.handler = "toggle_safe_mode" => app_state'.safe_mode = ui'.args.is_enabled
      /\ app_state'.dry_run_mode # app_state.dry_run_mode => ui'.handler = "toggle_dry_run"
      /\ app_state'.safe_mode # app_state.safe_mode => ui'.handler = "toggle_safe_mode"
      /\ entered' # entered =>
           /\ Entered.dry_run = app_state.dry_run_mode
           /\ Entered.safe_mode = app_state.safe_mode
           /\ app_state.dry_run_mode => Entered.result.runs = <<>> ]_vars

\* after toggle_dry_run(True), with safe mode off, "touch x" was mediated by
\* execute_displayed_command and previewed
C26_Witness ==
  /\ ui.handler = "execute_displayed_command"
  /\ app_state.dry_run_mode /\ ~ app_state.safe_mode
  /\ Len(entered) = 1
  /\ entered[1].command = <<"t","o","u","c","h"," ","x">>
  /\ entered[1].dry_run
  /\ entered[1].result.runs = <<>>
  /\ IsPreview(entered[1].result.output)

\* C29: no mediation entered by the presenter hands an empty or blank
\* command to the Process Runner.
C29_NoBlankCommandRuns ==
  \A i \in DOMAIN entered :
    entered[i].result.runs # <<>> => Strip(entered[i].result.runs[1].command) # <<>>

(***************************************************************************)
(* The Command Generator as a state machine: generate_command applied to   *)
(* the ways the Ollama request can end                                     *)
(***************************************************************************)
\* the commands the model is asked for
GeneratedCommands ==
  { <<"l","s">>,
    <<"l","s"," ","-","l","a">>,
    <<"p","w","d">>,
    <<"e","c","h","o"," ","h","i">>,
    <<"d","f"," ","-","h">>,
    <<"c","a","t"," ","a",".","t","x","t">>,
    <<"r","m"," ","-","r","f"," ","/">>,
    <<"d","a","t","e">> }

\* the language tags a model puts after the opening fence
LanguageTags ==
  { <<"b","a","s","h">>,
    <<"s","h">>,
    <<"s","h","e","l","l">>,
    <<"z","s","h">> }

\* a command wrapped in a fenced code block: the opening fence, a language
\* tag and the end of its line or no tag, the command, the closing fence on
\* the same or on the next line
Fenced(tag, opening, cmd, closing) == FENCE \o tag \o opening \o cmd \o closing \o FENCE

\* the fenced code blocks that hold cmd
FencedBlocks(cmd) ==
  { Fenced(tag, <<"\n">>, cmd, closing) : tag \in LanguageTags, closing \in {<<>>, <<"\n">>} }
    \cup { Fenced(<<>>, opening, cmd, closing) :
             opening \in {<<>>, <<"\n">>}, closing \in {<<>>, <<"\n">>} }

\* response_data["response"]: a bare command or a fenced one, as it is or
\* followed by a newline
GeneratorResponses ==
  LET texts == GeneratedCommands \cup UNION { FencedBlocks(cmd) : cmd \in GeneratedCommands }
  IN  texts \cup { text \o <<"\n">> : text \in texts }

\* how requests.post(...) and resp.json() can end
GeneratorReplies ==
  OllamaReplies \cup [kind : {"response"}, text : GeneratorResponses]

InitGenerator == InitPresenter

\* generate_command(prompt, ollama_url, ollama_model, timeout)
GenerateCommand ==
  /\ \E prompt \in PromptInputs, r \in GeneratorReplies :
       /\ resp' = r
       /\ generation' = generate_command(prompt, r)
  /\ UNCHANGED <<callVars, app_state, ui, entered, config_file, historyVars, threadVars>>

NextGenerator == GenerateCommand

SpecGenerator == InitGenerator /\ [][NextGenerator]_vars

\* C27: for every response that is a command wrapped in a fenced code block
\* (three backticks, a language tag or none, the command, three backticks),
\* generate_command returns exactly the bare command with status SUCCESS.
C27_FencesRemoved ==
  \A cmd \in GeneratedCommands :
    (resp.kind = "response" /\ resp.text \in FencedBlocks(cmd)) =>
      generation = [command |-> cmd, status |-> SUCCESS]

(***************************************************************************)
(* Configuration: update_timeout, save_configuration, reset_configuration  *)
(* and load_saved_configuration of the presenter, with save_config,        *)
(* load_config and reset_config of core/config_manager.py.  Of Config only *)
(* command_timeout is followed; ollama_url and ollama_model are saved and  *)
(* loaded the same way and no handler modelled here reads them.            *)
(***************************************************************************)
\* the bounds update_timeout accepts
TimeoutLow == 5

TimeoutHigh == 300

AcceptedTimeouts == TimeoutLow..TimeoutHigh

\* the values update_timeout is called with
TimeoutInputs == {0, 4, 5, 300, 301}

\* the values of "command_timeout" a configuration file holds
FileTimeouts == {0, 5, 30, 300, 1000}

\* CONFIG_FILE: absent, not readable as JSON, or a JSON object with or without
\* the key "command_timeout"
ConfigFiles ==
  { NoConfigFile, [kind |-> "invalid", command_timeout |-> <<>>] }
    \cup [kind : {"json"}, command_timeout : {<<>>} \cup { <<n>> : n \in FileTimeouts }]

\* str(CONFIG_FILE)
CONFIG_FILE == <<"/","h","o","m","e","/","u","/",".","d","e","s","k","t","o","p","c","o","m","m","a","n","d","e","r","_","c","o","n","f","i","g",".","j","s","o","n">>

\* the marks save_configuration, reset_configuration and
\* load_saved_configuration put in front of their messages
CHECK_MARK == "<check mark> "

CROSS_MARK == "<cross mark> "

\* Config.from_env() with COMMAND_TIMEOUT not set
from_env == [command_timeout |-> DefaultTimeout]

\* save_config(config): the file is written, or open() raises and it is left
\* as it was
save_config(config, file) ==
  { [message |-> <<Lit("Configuration saved to "), Val(CONFIG_FILE)>>,
     status |-> SUCCESS,
     config_file |-> [kind |-> "json", command_timeout |-> <<config.command_timeout>>]],
    [message |-> <<Lit("Failed to save configuration: "), Val(<<"[","E","r","r","n","o"," ","1","3","]">>)>>,
     status |-> ERROR,
     config_file |-> file] }

\* load_config()
load_config(file) ==
  IF file.kind = "absent"
  THEN [config |-> from_env, status |-> WARNING]
  ELSE IF file.kind = "json"
       THEN [config |-> [command_timeout |->
                           IF file.command_timeout = <<>> THEN DefaultTimeout
                           ELSE file.command_timeout[1]],
             status |-> SUCCESS]
       ELSE [config |-> from_env, status |-> ERROR]

\* reset_config(): the file is removed if it exists, or unlink() raises
reset_config(file) ==
  { [config |-> from_env, status |-> SUCCESS, config_file |-> NoConfigFile] }
    \cup IF file.kind = "absent" THEN {}
         ELSE { [config |-> from_env, status |-> ERROR, config_file |-> file] }

\* CommandPresenter.update_timeout(timeout_value)
update_timeout(st, timeout_value) ==
  LET call == Calling("update_timeout", [NoArgs EXCEPT !.timeout_value = timeout_value])
  IN  IF TimeoutLow <= timeout_value /\ timeout_value <= TimeoutHigh
      THEN [app_state |-> [st EXCEPT !.config.command_timeout = timeout_value],
            ui |-> [call EXCEPT !.timeout_status =
                      GrUpdate(TRUE, <<Lit("Timeout updated to "), Val(IntToStr(timeout_value)),
                                       Lit("s")>>, "unset")],
            mediations |-> <<>>]
      ELSE [app_state |-> st,
            ui |-> [call EXCEPT !.timeout_status =
                      GrUpdate(TRUE, <<Lit("Timeout must be between 5 and 300 seconds")>>, "unset")],
            mediations |-> <<>>]

\* CommandPresenter.save_configuration()
save_configuration(st, file) ==
  { [app_state |-> st,
     ui |-> [Calling("save_configuration", NoArgs) EXCEPT !.config_status =
               Shown(<<Lit(IF r.status = SUCCESS THEN CHECK_MARK ELSE CROSS_MARK)>> \o r.message)],
     mediations |-> <<>>,
     config_file |-> r.config_file] : r \in save_config(st.config, file) }

\* the updates reset_configuration and load_saved_configuration return for
\* the configuration config, with message in the status line
config_updates(st, call, config, message) ==
  [refresh_status(st, call) EXCEPT
     !.timeout_slider = GrUpdate(TRUE, <<Val(IntToStr(config.command_timeout))>>, "unset"),
     !.config_status = Shown(<<Lit(CHECK_MARK), Lit(message)>>)]

\* CommandPresenter.reset_configuration()
reset_configuration(st, file) ==
  { LET after == [st EXCEPT !.config = r.config]
    IN  [app_state |-> after,
         ui |-> config_updates(after, Calling("reset_configuration", NoArgs), r.config,
                               "Configuration reset to defaults"),
         mediations |-> <<>>,
         config_file |-> r.config_file] : r \in reset_config(file) }

\* CommandPresenter.load_saved_configuration()
load_saved_configuration(st, file) ==
  LET r     == load_config(file)
      after == [st EXCEPT !.config = r.config]
  IN  [app_state |-> after,
       ui |-> config_updates(after, Calling("load_saved_configuration", NoArgs), r.config,
                             IF r.status = SUCCESS THEN "Configuration loaded from file"
                             ELSE "Using default configuration"),
       mediations |-> <<>>]

(***************************************************************************)
(* The configuration handlers as a state machine, with the manual          *)
(* execution that uses the configured timeout                              *)
(***************************************************************************)
InitConfig ==
  /\ command = <<>>
  /\ timeout = DefaultTimeout
  /\ dry_run = FALSE
  /\ safe_mode = FALSE
  /\ pc = "idle"
  /\ result = NoResult
  /\ ev = NoEval
  /\ app_state = NewAppState
  /\ ui = NoUi
  /\ entered = <<>>
  /\ resp = NoReply
  /\ generation = NoGenerated
  /\ config_file \in ConfigFiles
  /\ HistoryAtRest
  /\ ThreadsAtRest

UpdateTimeout ==
  /\ \E timeout_value \in TimeoutInputs : Handled(update_timeout(app_state, timeout_value))
  /\ UNCHANGED <<callVars, serviceVars, historyVars, threadVars>>

SaveConfiguration ==
  /\ \E o \in save_configuration(app_state, config_file) :
       /\ Handled(o)
       /\ config_file' = o.config_file
  /\ UNCHANGED <<callVars, resp, generation, historyVars, threadVars>>

ResetConfiguration ==
  /\ \E o \in reset_configuration(app_state, config_file) :
       /\ Handled(o)
       /\ config_file' = o.config_file
  /\ UNCHANGED <<callVars, resp, generation, historyVars, threadVars>>

LoadSavedConfiguration ==
  /\ Handled(load_saved_configuration(app_state, config_file))
  /\ UNCHANGED <<callVars, serviceVars, historyVars, threadVars>>

NextConfig ==
  \/ UpdateTimeout
  \/ SaveConfiguration
  \/ ResetConfiguration
  \/ LoadSavedConfiguration
  \/ ExecuteDisplayedCommand

SpecConfig == InitConfig /\ [][NextConfig]_vars

\* C30: the configured command timeout, and the timeout of every mediation
\* the presenter enters, is within the range update_timeout accepts (5 to
\* 300 seconds) after any sequence of update_timeout, save_configuration,
\* reset_configuration and load_saved_configuration calls.
C30_TimeoutWithinRange ==
  /\ app_state.config.command_timeout \in AcceptedTimeouts
  /\ \A i \in DOMAIN entered : entered[i].timeout \in AcceptedTimeouts

====
